---- MODULE Spec2Model ----
(***************************************************************************)
(* MemStorage: the in-process artifact store with its RBush spatial index, *)
(* the circle query (bounding-box prefilter + haversine filter) and the    *)
(* zoom-dependent viewport clustering with its truncation policy.          *)
(*                                                                         *)
(* Coordinates are whole multiples of 1/UnitsPerDegree degree (0.05 deg),  *)
(* so every grid size of getClusterGridSize is a whole number of units and *)
(* Math.floor(coord / gridSize) is integer floor division.  Radii and      *)
(* distances are whole metres.                                             *)
(***************************************************************************)
EXTENDS Integers, Sequences, FiniteSets, TLC

(* ------------------------------ bounds -------------------------------- *)

\* number of createArtifact calls explored on top of the initial contents
MaxCreated == 2
\* largest limit passed to getViewportData (limits are 1..MaxLimit)
MaxLimit == 4
\* number of callers of getStorage
MaxCallers == 3
\* number of storage instances createStorage may construct
MaxInstances == 3
\* largest number of artifacts placed around the origin of the grid
MaxPlaced == 5

(* ------------------------- program constants -------------------------- *)

\* coordinate units per degree: 1 unit = 0.05 degree, the smallest grid size
UnitsPerDegree == 20
\* radius / 111320: metres per degree used for the circle's bounding box
MetersPerDegree == 111320
\* if (zoom >= 13): no clustering
HighZoom == 13
\* zoom is a real number; it is counted in half levels
UnitsPerLevel == 2
Level(n) == n * UnitsPerLevel
\* cellArtifacts.length > 3: a cell becomes a cluster
ClusterThreshold == 3

DefaultLayer == "default"
SeedLayer == "utility-poc"
SubstationLayer == "eversource-substations"
\* an insert that carries no layer (undefined)
NoLayer == ""

(* ------------------------------- inputs ------------------------------- *)

\* (lat, lng) in units: 41.5,-72.7 / 41.6,-72.7 / 41.5,-72.5.  P0 and P1 share
\* a grid cell down to 0.5 degree cells and P0 and P4 down to 1 degree cells.
P0 == [lat |-> 830, lng |-> -1454]
P1 == [lat |-> 832, lng |-> -1454]
P4 == [lat |-> 830, lng |-> -1450]

\* the inserts: one without a layer, one of layer "x" whose category is the
\* name of a member of Object.prototype
\* timestamps: the ISO string of the current time, of a time within the last
\* year (seedData), and of an earlier time carried by an input
Now == "now"
PastYear == "within the last year"
Earlier == "2020-01-01T00:00:00.000Z"

\* the second input carries the optional createdAt
InsertArtifacts ==
  {[name |-> "pole-1", category |-> "pole", layer |-> NoLayer,
    lat |-> P1.lat, lng |-> P1.lng],
   [name |-> "pole-1", category |-> "constructor", layer |-> "x",
    lat |-> P4.lat, lng |-> P4.lng, createdAt |-> Earlier]}

\* positions drawn by seedData (all inside its disc around 41.5,-72.7): none
\* (seedData = false), or eight of the points above
SeedLayouts ==
  { <<>>,
    <<P0, P4, P0, P4, P1, P4, P0, P4>> }

\* layer ids used by deleteLayer, createLayer, updateLayerVisibility, getLayer
LayerIds == {"x", SeedLayer}
\* layer filters of the read operations: absent/empty, or a list of ids
LayerFilters == {{}, {"x"}}
NoFilter == {}

WorldBounds == [north |-> 90 * UnitsPerDegree, south |-> -90 * UnitsPerDegree,
                east |-> 180 * UnitsPerDegree, west |-> -180 * UnitsPerDegree]
\* P0 lies on the south and west edges, P1 on the north edge, P4 outside
EdgeBounds == [north |-> 832, south |-> 830, east |-> -1453, west |-> -1454]
\* P0 lies on the north edge, P4 on the north and east edges, P1 outside
RowBounds == [north |-> 830, south |-> 829, east |-> -1450, west |-> -1460]
BoundsSet == {WorldBounds, EdgeBounds, RowBounds}

\* radii in metres: 11120 = ceil(distance P0-P1), and 11120/111320 deg < 0.1
\* deg; 17000 > distance P0-P4 = 16657, and 17000/111320 deg < 0.2 deg;
\* 25000/111320 deg > 0.2 deg
Circles == [center : {P0}, radius : {11120, 17000, 25000}]

\* one zoom per row of the grid-size table, the first unclustered zoom, and
\* zoom 12.5
Zooms == {Level(6), Level(8), Level(10), Level(12), Level(HighZoom), Level(12) + 1}
Limits == 1..MaxLimit
\* zoom levels of the viewport requests that carry a layer list
FilteredZooms == {Level(10), Level(HighZoom)}

(* ------------------------------ helpers ------------------------------- *)

Range(s) == {s[i] : i \in 1..Len(s)}

\* Array.prototype.slice(0, n)
Slice(s, n) == IF n >= Len(s) THEN s ELSE SubSeq(s, 1, n)

RECURSIVE SeqSum(_)
SeqSum(s) == IF s = <<>> THEN 0 ELSE Head(s) + SeqSum(Tail(s))

\* Array.prototype.map
MapSeq(s, F(_)) == [i \in 1..Len(s) |-> F(s[i])]

\* layers?.length ... layers.includes(a.layer || "default")
LayerOf(a) == IF a.layer = NoLayer THEN DefaultLayer ELSE a.layer
\* a filter that ignores the layer list
FilterLayersIgnored(arts, layers) == arts

FilterLayers(arts, layers) ==
  IF layers # {} THEN SelectSeq(arts, LAMBDA a : LayerOf(a) \in layers) ELSE arts

(* --------------------------- spatial index ---------------------------- *)

\* RBushItem of an artifact: a degenerate box at (lng, lat)
ItemOf(artifact) ==
  [minX |-> artifact.lng, minY |-> artifact.lat,
   maxX |-> artifact.lng, maxY |-> artifact.lat, artifact |-> artifact]

\* rbush's intersects(query, item), closed on every side.  The query box is
\* given in units scaled by `den` so that fractional boxes stay integral.
Intersects(box, item, den) ==
  /\ box.minX <= item.maxX * den
  /\ box.minY <= item.maxY * den
  /\ box.maxX >= item.minX * den
  /\ box.maxY >= item.minY * den

\* spatialIndex.search(box): every item whose box intersects the query, in the
\* tree's traversal order, which is insertion order while the root is a leaf
Search(index, box, den) == SelectSeq(index, LAMBDA item : Intersects(box, item, den))

\* spatialIndex.insert(item)
Insert(index, item) == Append(index, item)

\* spatialIndex.load(items)
Load(index, items) == index \o items

(* ------------------------------- state -------------------------------- *)

VARIABLES
  artifacts,     \* Map<string, Artifact>: the values in insertion order
  spatialIndex,  \* RBush<RBushItem>: the indexed items
  layers,        \* Map<string, Layer>: layer id -> Layer
  nextId,        \* number of ids createArtifact has drawn from randomUUID
  created,       \* artifacts returned by createArtifact whose layer was not deleted since
  batch,         \* the createManyArtifacts call suspended at its await, if any
  resp,          \* the call being answered: its name, its arguments and its result
  storageInstance,   \* server/storage.ts: the module variable of the same name
  createStorageRuns, \* calls of createStorage since the last resetStorage
  instances,         \* storage instances constructed so far
  calls,             \* the getStorage call of each caller: where it stands
  lastCreate         \* the createStorage run that resolved last: what it met, what it gave

\* the storage factory of server/storage.ts
factory == <<storageInstance, createStorageRuns, instances, calls, lastCreate>>

\* the storage object the factory hands out
store == <<artifacts, spatialIndex, layers, nextId, created, batch, resp>>

vars == <<artifacts, spatialIndex, layers, nextId, created, batch, resp,
          storageInstance, createStorageRuns, instances, calls, lastCreate>>

\* let storageInstance: IStorage | null = null
Null == 0

\* the callers of getStorage
Callers == 1..MaxCallers

\* a caller that has no getStorage call in flight and holds no result
NotCalled == [pc |-> "idle"]

\* createStorage has not resolved yet
NotCreated == [env |-> "none"]

FactoryInit ==
  /\ storageInstance = Null
  /\ createStorageRuns = 0
  /\ instances = 0
  /\ calls = [c \in Callers |-> NotCalled]
  /\ lastCreate = NotCreated

\* no call is being answered
NoCall == [op |-> "idle"]
Idle == resp = NoCall

\* no createManyArtifacts call is in flight
NoBatch == [pc |-> "none"]

\* creates the suspended createManyArtifacts call has still to make
Outstanding ==
  IF batch = NoBatch THEN 0 ELSE Len(batch.inputs) - Len(batch.results) - 1

\* randomUUID(): a fresh id
NewId == nextId + 1

\* initializeLayers
initializeLayers ==
  [id \in {SeedLayer, SubstationLayer} |->
     [id |-> id,
      name |-> IF id = SeedLayer THEN "CT Utility POC" ELSE "Eversource Substations",
      artifactCount |-> 0, visible |-> TRUE]]

\* updateLayerCounts
updateLayerCounts(arts, lyrs) ==
  [id \in DOMAIN lyrs |->
     [lyrs[id] EXCEPT !.artifactCount =
        Cardinality({i \in 1..Len(arts) : LayerOf(arts[i]) = id})]]

\* buildSpatialIndex: load one item per artifact of the map into the index
buildSpatialIndex(index, arts) == Load(index, MapSeq(arts, ItemOf))

\* seedData, line 124: the category drawn for the i-th seeded artifact
SeedCategory(i) == IF i % 2 = 0 THEN "transformer" ELSE "pole"

\* seedData: one artifact of layer "utility-poc" per seeded position (the ids
\* of seeded artifacts are written -1, -2, ...; created ones 1, 2, ...)
seedData(layout) ==
  [i \in 1..Len(layout) |->
     [id |-> -i, name |-> "seed", category |-> SeedCategory(i), layer |-> SeedLayer,
      lat |-> layout[i].lat, lng |-> layout[i].lng, createdAt |-> PastYear]]

\* constructor(seedData)
Init ==
  \E layout \in SeedLayouts :
    /\ artifacts = seedData(layout)
    /\ spatialIndex = buildSpatialIndex(<<>>, seedData(layout))
    /\ layers = updateLayerCounts(seedData(layout), initializeLayers)
    /\ nextId = 0
    /\ created = {}
    /\ batch = NoBatch
    /\ resp = NoCall
    /\ FactoryInit

(* ------------------------------- writes ------------------------------- *)

\* createArtifact, lines 268-274: the artifact built from the insert
NewArtifact(insertArtifact, id) ==
  [id |-> id, name |-> insertArtifact.name, category |-> insertArtifact.category,
   layer |-> IF insertArtifact.layer = NoLayer THEN DefaultLayer ELSE insertArtifact.layer,
   lat |-> insertArtifact.lat, lng |-> insertArtifact.lng,
   createdAt |-> Now]

\* createArtifact, lines 285-289: count the artifact on its layer, if registered
CountOnLayer(lyrs, artifact) ==
  IF artifact.layer \in DOMAIN lyrs
    THEN [lyrs EXCEPT ![artifact.layer].artifactCount = @ + 1]
    ELSE lyrs

\* createArtifact that forgets the spatial index
IndexArtifactSkipped(index, artifact) == index

\* createArtifact, lines 277-283: index the new artifact
IndexArtifact(index, artifact) == Insert(index, ItemOf(artifact))

createArtifact(insertArtifact) ==
  /\ Idle
  /\ nextId + Outstanding < MaxCreated
  /\ LET artifact == NewArtifact(insertArtifact, NewId) IN
       /\ artifacts' = Append(artifacts, artifact)
       /\ spatialIndex' = IndexArtifact(spatialIndex, artifact)
       /\ layers' = CountOnLayer(layers, artifact)
       /\ created' = created \cup {artifact}
       /\ resp' = [op |-> "createArtifact", insert |-> insertArtifact, result |-> artifact]
  /\ nextId' = NewId
  /\ UNCHANGED <<batch, factory>>

\* createLayer
createLayer(layer) ==
  /\ Idle
  /\ layers' = [id \in DOMAIN layers \cup {layer.id} |->
                  IF id = layer.id
                    THEN [id |-> layer.id, name |-> layer.name,
                          artifactCount |-> 0, visible |-> layer.visible]
                    ELSE layers[id]]
  /\ resp' = [op |-> "createLayer", layer |-> layer]
  /\ UNCHANGED <<artifacts, spatialIndex, nextId, created, batch, factory>>

\* updateLayerVisibility
updateLayerVisibility(id, visible) ==
  /\ Idle
  /\ layers' = IF id \in DOMAIN layers
                 THEN [layers EXCEPT ![id].visible = visible]
                 ELSE layers
  /\ resp' = [op |-> "updateLayerVisibility", id |-> id, visible |-> visible]
  /\ UNCHANGED <<artifacts, spatialIndex, nextId, created, batch, factory>>

\* deleteLayer that empties the map
RemoveLayerArtifactsOfAll(arts, id) == <<>>

\* deleteLayer, lines 432-438: the map without the artifacts of the layer
RemoveLayerArtifacts(arts, id) == SelectSeq(arts, LAMBDA a : a.layer # id)

\* deleteLayer that deletes from the map only
RebuildIndexSkipped(index, arts) == index

\* deleteLayer that loads the map into the index it already has
RebuildIndexInPlace(index, arts) == buildSpatialIndex(index, arts)

\* deleteLayer, lines 441-442: a new RBush, loaded from the map
RebuildIndex(index, arts) == buildSpatialIndex(<<>>, arts)

deleteLayer(id) ==
  /\ Idle
  /\ artifacts' = RemoveLayerArtifacts(artifacts, id)
  /\ spatialIndex' = RebuildIndex(spatialIndex, artifacts')
  /\ layers' = [l \in DOMAIN layers \ {id} |-> layers[l]]
  /\ created' = {a \in created : a.layer # id}
  /\ resp' = [op |-> "deleteLayer", id |-> id]
  /\ UNCHANGED <<nextId, batch, factory>>

\* createManyArtifacts, line 297: the call of createArtifact for the next input
\* of the batch, which runs to its end before the await suspends the batch
BatchCreate(inputs, results, raised) ==
  LET artifact == NewArtifact(inputs[Len(results) + 1], NewId) IN
    /\ artifacts' = Append(artifacts, artifact)
    /\ spatialIndex' = IndexArtifact(spatialIndex, artifact)
    /\ layers' = CountOnLayer(layers, artifact)
    /\ created' = created \cup {artifact}
    /\ nextId' = NewId
    /\ batch' = [pc |-> "awaiting", inputs |-> inputs, results |-> results,
                 pending |-> artifact,
                 raised |-> raised + Len(artifacts') - Len(artifacts)]
    /\ UNCHANGED <<resp, factory>>

\* a batch that collects its artifacts last first
PushResultFront(results, artifact) == <<artifact>> \o results

\* createManyArtifacts, line 298: artifacts.push(artifact)
PushResult(results, artifact) == Append(results, artifact)

\* the call of createManyArtifacts: up to the first await
createManyArtifacts(inputs) ==
  /\ Idle
  /\ batch = NoBatch
  /\ nextId + Len(inputs) <= MaxCreated
  /\ IF inputs = <<>>
       THEN /\ resp' = [op |-> "createManyArtifacts", inputs |-> inputs,
                        result |-> <<>>, raised |-> 0]
            /\ UNCHANGED <<artifacts, spatialIndex, layers, nextId, created, batch, factory>>
       ELSE BatchCreate(inputs, <<>>, 0)

\* createManyArtifacts, lines 297-300: the awaited createArtifact has resolved;
\* push its artifact, then create the next one or return the list
resumeCreateManyArtifacts ==
  /\ Idle
  /\ batch # NoBatch
  /\ LET results == PushResult(batch.results, batch.pending) IN
       IF Len(results) < Len(batch.inputs)
         THEN BatchCreate(batch.inputs, results, batch.raised)
         ELSE /\ resp' = [op |-> "createManyArtifacts", inputs |-> batch.inputs,
                          result |-> results, raised |-> batch.raised]
              /\ batch' = NoBatch
              /\ UNCHANGED <<artifacts, spatialIndex, layers, nextId, created, factory>>

(* -------------------------------- reads ------------------------------- *)

\* what a lookup of a missing key returns
Undefined == [undefined |-> TRUE]

getAllArtifacts(arts, layerFilter) == FilterLayers(arts, layerFilter)

\* getArtifactCount, lines 303-310
getArtifactCount(arts, layerFilter) ==
  IF layerFilter # {}
    THEN Len(SelectSeq(arts, LAMBDA a : LayerOf(a) \in layerFilter))
    ELSE Len(arts)

\* a lookup that raises an error for a missing id
getArtifactOrThrow(arts, id) ==
  IF \E i \in 1..Len(arts) : arts[i].id = id
    THEN arts[CHOOSE i \in 1..Len(arts) : arts[i].id = id]
    ELSE [error |-> "not found"]

getArtifact(arts, id) ==
  IF \E i \in 1..Len(arts) : arts[i].id = id
    THEN arts[CHOOSE i \in 1..Len(arts) : arts[i].id = id]
    ELSE Undefined

getLayer(lyrs, id) == IF id \in DOMAIN lyrs THEN lyrs[id] ELSE Undefined

\* a box with latitude and longitude mixed up
BoundsBoxSwapped(bounds) ==
  [minX |-> bounds.south, minY |-> bounds.west,
   maxX |-> bounds.north, maxY |-> bounds.east]

\* getArtifactsInBounds, lines 210-215: the box handed to search
BoundsBox(bounds) ==
  [minX |-> bounds.west, minY |-> bounds.south,
   maxX |-> bounds.east, maxY |-> bounds.north]

getArtifactsInBounds(index, bounds, layerFilter) ==
  FilterLayers(MapSeq(Search(index, BoundsBox(bounds), 1), LAMBDA item : item.artifact),
               layerFilter)

Abs(x) == IF x < 0 THEN -x ELSE x

\* haversineDistance with R = 6371000, evaluated in IEEE doubles on the model's
\* coordinates and rounded up to whole metres, so that for a whole-metre
\* radius `distance <= radius` decides exactly as the unrounded value does:
\*   0.1 deg of latitude on one meridian                   11119.493 m
\*   0.2 deg of longitude at latitude 41.5                 16656.011 m
\*   0.2 deg of longitude at latitude 41.6                 16630.267 m
\*   0.1 deg of latitude and 0.2 deg of longitude, 41.5-41.6  20015.923 m
haversineDistance(lat1, lng1, lat2, lng2) ==
  LET dLat == Abs(lat2 - lat1)
      dLng == Abs(lng2 - lng1)
  IN  CASE dLat = 0 /\ dLng = 0 -> 0
        [] dLat = 2 /\ dLng = 0 -> 11120
        [] dLat = 0 /\ dLng = 4 /\ lat1 = 830 -> 16657
        [] dLat = 0 /\ dLng = 4 /\ lat1 = 832 -> 16631
        [] dLat = 2 /\ dLng = 4 -> 20016

\* getArtifactsInCircle, lines 225-232: the square of half-width
\* radius / 111320 degrees around the centre, in units scaled by 111320
CircleBox(circle) ==
  [minX |-> circle.center.lng * MetersPerDegree - circle.radius * UnitsPerDegree,
   minY |-> circle.center.lat * MetersPerDegree - circle.radius * UnitsPerDegree,
   maxX |-> circle.center.lng * MetersPerDegree + circle.radius * UnitsPerDegree,
   maxY |-> circle.center.lat * MetersPerDegree + circle.radius * UnitsPerDegree]

\* getArtifactsInCircle, lines 236-244: the exact distance filter
WithinRadius(circle, artifact) ==
  haversineDistance(circle.center.lat, circle.center.lng, artifact.lat, artifact.lng)
    <= circle.radius

getArtifactsInCircle(index, circle, layerFilter) ==
  LET candidateItems == Search(index, CircleBox(circle), MetersPerDegree)
      found == SelectSeq(MapSeq(candidateItems, LAMBDA item : item.artifact),
                         LAMBDA artifact : WithinRadius(circle, artifact))
  IN  FilterLayers(found, layerFilter)

\* the values a property of the categories object can hold: a number, or the
\* string that + yields when its left operand is not a number
Num(n) == [number |-> n]
Str(text) == [string |-> text]

\* categories is an object literal: a key it does not own is looked up on
\* Object.prototype, where "constructor" is the function Object
ObjectPrototype(key) ==
  IF key = "constructor" THEN Str("function Object() { [native code] }") ELSE Undefined

\* categories[key] || 0
PropertyOrZero(own, key) ==
  IF key \in DOMAIN own THEN own[key]
  ELSE IF ObjectPrototype(key) # Undefined THEN ObjectPrototype(key)
  ELSE Num(0)

\* value + 1: addition of numbers, concatenation otherwise
PlusOne(value) ==
  IF "number" \in DOMAIN value THEN Num(value.number + 1) ELSE Str(value.string \o "1")

\* getAggregation, lines 255-258: categories[c] = (categories[c] || 0) + 1
RECURSIVE Tally(_)
Tally(arts) ==
  IF arts = <<>> THEN <<>>
  ELSE LET before == Tally(SubSeq(arts, 1, Len(arts) - 1))
           category == arts[Len(arts)].category
       IN  [c \in DOMAIN before \cup {category} |->
              IF c = category THEN PlusOne(PropertyOrZero(before, category))
              ELSE before[c]]

getAggregation(index, circle, layerFilter) ==
  LET arts == getArtifactsInCircle(index, circle, layerFilter)
  IN  [count |-> Len(arts), categories |-> Tally(arts), artifacts |-> arts]

\* a.name.localeCompare(b.name) on the names of the registry
NameRank(name) ==
  CASE name = "CT Utility POC" -> 1
    [] name = "Eversource Substations" -> 2
    [] name = "Layer x" -> 3

\* getLayers: Array.from(this.layers.values()).sort(by name)
RECURSIVE SortByName(_)
SortByName(set) ==
  IF set = {} THEN <<>>
  ELSE LET first == CHOOSE l \in set : \A m \in set : NameRank(l.name) <= NameRank(m.name)
       IN  <<first>> \o SortByName(set \ {first})

getLayers(lyrs) == SortByName({lyrs[id] : id \in DOMAIN lyrs})

\* getClusterGridSize, in units: 2, 1, 0.5, 0.1 and 0.05 degrees
getClusterGridSize(zoom) ==
  IF zoom <= Level(6) THEN 2 * UnitsPerDegree
  ELSE IF zoom <= Level(8) THEN UnitsPerDegree
  ELSE IF zoom <= Level(10) THEN UnitsPerDegree \div 2
  ELSE IF zoom <= Level(12) THEN UnitsPerDegree \div 10
  ELSE UnitsPerDegree \div 20

\* `${cellX}:${cellY}` with cellX = floor(lng / gridSize), cellY = floor(lat / gridSize)
CellKey(artifact, gridSize) == <<artifact.lng \div gridSize, artifact.lat \div gridSize>>

\* the keys of the grid Map, in the order their cells were first set
RECURSIVE GridKeys(_, _)
GridKeys(arts, gridSize) ==
  IF arts = <<>> THEN <<>>
  ELSE LET before == GridKeys(SubSeq(arts, 1, Len(arts) - 1), gridSize)
           key == CellKey(arts[Len(arts)], gridSize)
       IN  IF key \in Range(before) THEN before ELSE Append(before, key)

\* grid.get(key): the artifacts pushed to the cell, in order
CellArtifacts(arts, gridSize, key) ==
  SelectSeq(arts, LAMBDA a : CellKey(a, gridSize) = key)

\* a threshold off by one: three artifacts already make a cluster
IsClusterFromThree(cellArtifacts) == Len(cellArtifacts) >= ClusterThreshold

\* cellArtifacts.length > 3
IsCluster(cellArtifacts) == Len(cellArtifacts) > ClusterThreshold

\* a ClusterData that counts only the artifacts beyond the threshold
ClusterOfExcess(key, cellArtifacts) ==
  [id |-> <<"cluster", key[1], key[2]>>,
   lat |-> <<SeqSum(MapSeq(cellArtifacts, LAMBDA a : a.lat)), Len(cellArtifacts)>>,
   lng |-> <<SeqSum(MapSeq(cellArtifacts, LAMBDA a : a.lng)), Len(cellArtifacts)>>,
   count |-> Len(cellArtifacts) - ClusterThreshold]

\* the ClusterData of a cell; lat and lng are the means sum / length, kept as
\* the pair <<sum, length>>
ClusterOf(key, cellArtifacts) ==
  [id |-> <<"cluster", key[1], key[2]>>,
   lat |-> <<SeqSum(MapSeq(cellArtifacts, LAMBDA a : a.lat)), Len(cellArtifacts)>>,
   lng |-> <<SeqSum(MapSeq(cellArtifacts, LAMBDA a : a.lng)), Len(cellArtifacts)>>,
   count |-> Len(cellArtifacts)]

\* grid.forEach, lines 349-365: the clusters pushed, in cell order
GridClusters(arts, gridSize) ==
  LET keys == SelectSeq(GridKeys(arts, gridSize),
                        LAMBDA k : IsCluster(CellArtifacts(arts, gridSize, k)))
  IN  MapSeq(keys, LAMBDA k : ClusterOf(k, CellArtifacts(arts, gridSize, k)))

\* grid.forEach, lines 349-365: the singles pushed, in cell order
RECURSIVE PushSingles(_, _, _)
PushSingles(keys, arts, gridSize) ==
  IF keys = <<>> THEN <<>>
  ELSE LET cellArtifacts == CellArtifacts(arts, gridSize, Head(keys))
       IN  (IF IsCluster(cellArtifacts) THEN <<>> ELSE cellArtifacts)
             \o PushSingles(Tail(keys), arts, gridSize)

GridSingles(arts, gridSize) == PushSingles(GridKeys(arts, gridSize), arts, gridSize)

\* a zoom test off by one: zoom 13 is still clustered
IsHighZoomAbove(zoom) == zoom > Level(HighZoom)

\* zoom >= 13
IsHighZoom(zoom) == zoom >= Level(HighZoom)

\* lines 321-330: the unclustered response
HighZoomResponse(arts, limit) ==
  LET truncated == Len(arts) > limit
  IN  [clusters |-> <<>>,
       singles |-> IF truncated THEN Slice(arts, limit) ELSE arts,
       total |-> Len(arts), truncated |-> truncated]

\* a truncation that fills the budget with singles first
TruncateSinglesFirst(clusters, singles, total, limit) ==
  IF Len(clusters) + Len(singles) > limit
    THEN [clusters |-> Slice(clusters, IF Len(singles) >= limit THEN 0
                                        ELSE limit - Len(singles)),
          singles |-> Slice(singles, limit), total |-> total, truncated |-> TRUE]
    ELSE [clusters |-> clusters, singles |-> singles,
          total |-> total, truncated |-> FALSE]

\* a truncation that already cuts when the combined count equals the limit
TruncateAtLimit(clusters, singles, total, limit) ==
  IF Len(clusters) + Len(singles) >= limit
    THEN IF Len(clusters) <= limit
           THEN [clusters |-> clusters,
                 singles |-> Slice(singles, limit - Len(clusters)),
                 total |-> total, truncated |-> TRUE]
           ELSE [clusters |-> Slice(clusters, limit), singles |-> <<>>,
                 total |-> total, truncated |-> TRUE]
    ELSE [clusters |-> clusters, singles |-> singles,
          total |-> total, truncated |-> FALSE]

\* a truncation that forgets to take the clusters off the budget of singles
TruncateFullBudget(clusters, singles, total, limit) ==
  IF Len(clusters) + Len(singles) > limit
    THEN IF Len(clusters) <= limit
           THEN [clusters |-> clusters, singles |-> Slice(singles, limit),
                 total |-> total, truncated |-> TRUE]
           ELSE [clusters |-> Slice(clusters, limit), singles |-> <<>>,
                 total |-> total, truncated |-> TRUE]
    ELSE [clusters |-> clusters, singles |-> singles,
          total |-> total, truncated |-> FALSE]

\* lines 367-394: the truncation policy
Truncate(clusters, singles, total, limit) ==
  LET combinedCount == Len(clusters) + Len(singles)
      truncated == combinedCount > limit
  IN  IF truncated
        THEN IF Len(clusters) <= limit
               THEN [clusters |-> clusters,
                     singles |-> Slice(singles, limit - Len(clusters)),
                     total |-> total, truncated |-> TRUE]
               ELSE [clusters |-> Slice(clusters, limit), singles |-> <<>>,
                     total |-> total, truncated |-> TRUE]
        ELSE [clusters |-> clusters, singles |-> singles,
              total |-> total, truncated |-> FALSE]

getViewportData(index, bounds, zoom, limit, layerFilter) ==
  LET arts == getArtifactsInBounds(index, bounds, layerFilter)
      total == Len(arts)
      gridSize == getClusterGridSize(zoom)
  IN  IF IsHighZoom(zoom)
        THEN HighZoomResponse(arts, limit)
        ELSE Truncate(GridClusters(arts, gridSize), GridSingles(arts, gridSize),
                      total, limit)

(* ------------- PostgresStorage (server/db/postgresStorage.ts) --------- *)

\* The persisted backend answers from the rows of the artifacts table.  The
\* two backends are compared on the same stored data, so a query is evaluated
\* on the rows `artifacts`; SQL leaves the row order open, and nothing below
\* depends on it.

\* ST_Intersects(location, ST_MakeEnvelope($1, $2, $3, $4)): the point of the
\* row lies in the closed envelope (west, south, east, north)
InEnvelope(row, bounds) ==
  /\ bounds.west <= row.lng /\ row.lng <= bounds.east
  /\ bounds.south <= row.lat /\ row.lat <= bounds.north

\* layers?.length ? "AND layer = ANY($6::text[])" : ""
LayerClause(row, layerFilter) == layerFilter = {} \/ row.layer \in layerFilter

\* FROM artifacts WHERE ST_Intersects(...) ${layerClause}
ViewportRows(rows, bounds, layerFilter) ==
  SelectSeq(rows, LAMBDA row : InEnvelope(row, bounds) /\ LayerClause(row, layerFilter))

\* lines 159-193: zoom >= 13, the query carries LIMIT limit + 1
PgHighZoomResponse(rows, bounds, limit, layerFilter) ==
  LET result == Slice(ViewportRows(rows, bounds, layerFilter), limit + 1)
      truncated == Len(result) > limit
  IN  [clusters |-> <<>>, singles |-> Slice(result, limit),
       total |-> Len(result), truncated |-> truncated]

\* lines 208-251: GROUP BY cell_x, cell_y with floor(lng / $5), floor(lat / $5);
\* a cell of more than three points carries no artifacts
GridCellRows(rows, gridSize) ==
  MapSeq(GridKeys(rows, gridSize),
         LAMBDA key :
           LET members == CellArtifacts(rows, gridSize, key)
           IN  [cell_x |-> key[1], cell_y |-> key[2],
                point_count |-> Len(members),
                center_lat |-> <<SeqSum(MapSeq(members, LAMBDA a : a.lat)), Len(members)>>,
                center_lng |-> <<SeqSum(MapSeq(members, LAMBDA a : a.lng)), Len(members)>>,
                artifacts |-> IF Len(members) <= ClusterThreshold THEN members ELSE <<>>])

\* lines 259-272: the loop over the cells
RECURSIVE PgTotal(_)
PgTotal(cells) ==
  IF cells = <<>> THEN 0 ELSE Head(cells).point_count + PgTotal(Tail(cells))

PgClusters(cells) ==
  MapSeq(SelectSeq(cells, LAMBDA row : row.point_count > ClusterThreshold),
         LAMBDA row : [id |-> <<"cluster", row.cell_x, row.cell_y>>,
                       lat |-> row.center_lat, lng |-> row.center_lng,
                       count |-> row.point_count])

RECURSIVE PgSingles(_)
PgSingles(cells) ==
  IF cells = <<>> THEN <<>>
  ELSE (IF Head(cells).point_count > ClusterThreshold THEN <<>> ELSE Head(cells).artifacts)
         \o PgSingles(Tail(cells))

\* lines 274-295: the same truncation policy as the in-memory backend
PgTruncate(clusters, singles, total, limit) ==
  LET combinedCount == Len(clusters) + Len(singles)
      truncated == combinedCount > limit
  IN  IF truncated
        THEN IF Len(clusters) <= limit
               THEN [clusters |-> clusters,
                     singles |-> Slice(singles, limit - Len(clusters)),
                     total |-> total, truncated |-> TRUE]
               ELSE [clusters |-> Slice(clusters, limit), singles |-> <<>>,
                     total |-> total, truncated |-> TRUE]
        ELSE [clusters |-> clusters, singles |-> singles,
              total |-> total, truncated |-> FALSE]

PgGetViewportData(rows, bounds, zoom, limit, layerFilter) ==
  IF zoom >= Level(HighZoom)
    THEN PgHighZoomResponse(rows, bounds, limit, layerFilter)
    ELSE LET cells == GridCellRows(ViewportRows(rows, bounds, layerFilter),
                                   getClusterGridSize(zoom))
         IN  PgTruncate(PgClusters(cells), PgSingles(cells), PgTotal(cells), limit)

(* ---------------------------- read requests --------------------------- *)

\* a read that consumes what it reads
ReadFrameConsuming ==
  /\ artifacts' = SubSeq(artifacts, 1, Len(artifacts) - 1)
  /\ UNCHANGED <<spatialIndex, layers, nextId, created, batch, factory>>

\* lines 197-265 and 303-412: the read operations assign no field of the
\* storage and call no mutating method of the map, the index or the registry
ReadFrame == UNCHANGED <<artifacts, spatialIndex, layers, nextId, created, batch, factory>>

Read(r) ==
  /\ Idle
  /\ resp' = r
  /\ ReadFrame

\* getAllArtifacts; a caller may call again as soon as the answer is there,
\* and the answer then records what the call before returned
GetAllArtifacts(layerFilter) ==
  /\ Idle \/ resp.op = "getAllArtifacts"
  /\ LET repeated == resp.op = "getAllArtifacts" /\ resp.layers = layerFilter IN
       resp' = [op |-> "getAllArtifacts", layers |-> layerFilter,
                result |-> getAllArtifacts(artifacts, layerFilter),
                repeated |-> repeated,
                previous |-> IF repeated THEN resp.result ELSE <<>>]
  /\ ReadFrame

GetArtifactCount(layerFilter) ==
  Read([op |-> "getArtifactCount", layers |-> layerFilter,
        result |-> getArtifactCount(artifacts, layerFilter)])

GetAggregation(circle, layerFilter) ==
  Read([op |-> "getAggregation", circle |-> circle, layers |-> layerFilter,
        result |-> getAggregation(spatialIndex, circle, layerFilter)])

GetLayers ==
  Read([op |-> "getLayers", result |-> getLayers(layers)])

GetArtifact(id) ==
  Read([op |-> "getArtifact", id |-> id, result |-> getArtifact(artifacts, id)])

GetLayer(id) ==
  Read([op |-> "getLayer", id |-> id, result |-> getLayer(layers, id)])

GetArtifactsInBounds(bounds, layerFilter) ==
  Read([op |-> "getArtifactsInBounds", bounds |-> bounds, layers |-> layerFilter,
        result |-> getArtifactsInBounds(spatialIndex, bounds, layerFilter)])

GetArtifactsInCircle(circle, layerFilter) ==
  Read([op |-> "getArtifactsInCircle", circle |-> circle, layers |-> layerFilter,
        result |-> getArtifactsInCircle(spatialIndex, circle, layerFilter)])

GetViewportData(bounds, zoom, limit, layerFilter) ==
  Read([op |-> "getViewportData", bounds |-> bounds, zoom |-> zoom, limit |-> limit,
        layers |-> layerFilter,
        result |-> getViewportData(spatialIndex, bounds, zoom, limit, layerFilter)])

\* the same request answered by the persisted backend holding the same rows
PostgresGetViewportData(bounds, zoom, limit, layerFilter) ==
  Read([op |-> "PostgresStorage.getViewportData", bounds |-> bounds, zoom |-> zoom,
        limit |-> limit, layers |-> layerFilter,
        result |-> PgGetViewportData(artifacts, bounds, zoom, limit, layerFilter),
        mem |-> getViewportData(spatialIndex, bounds, zoom, limit, layerFilter)])

\* the promise of the call resolves: its result is handed to the caller
Return ==
  /\ ~Idle
  /\ resp' = NoCall
  /\ UNCHANGED <<artifacts, spatialIndex, layers, nextId, created, batch, factory>>

(* ------------------------------ API routes ----------------------------- *)

\* shared/schema.ts, artifactSchema: lat within [-90, 90], lng within [-180, 180]
MaxLat == 90 * UnitsPerDegree
MaxLng == 180 * UnitsPerDegree

\* a schema that bounds the latitude only
ValidCoordinatesLatOnly(body) == body.lat >= -MaxLat /\ body.lat <= MaxLat

\* artifactSchema, fields lat and lng
ValidCoordinates(body) ==
  /\ body.lat >= -MaxLat /\ body.lat <= MaxLat
  /\ body.lng >= -MaxLng /\ body.lng <= MaxLng

\* insertArtifactSchema.parse succeeds: name and category are not empty and
\* the coordinates are in range
insertArtifactSchemaAccepts(body) ==
  /\ body.name # ""
  /\ body.category # ""
  /\ ValidCoordinates(body)

\* request bodies of POST /api/artifacts: a valid one, one with latitude 90.05,
\* one with longitude -180.05, one with an empty name
PostBodies ==
  {[name |-> "pole-1", category |-> "pole", layer |-> NoLayer, lat |-> P1.lat, lng |-> P1.lng],
   [name |-> "pole-1", category |-> "pole", layer |-> NoLayer, lat |-> MaxLat + 1, lng |-> P1.lng],
   [name |-> "pole-1", category |-> "pole", layer |-> NoLayer, lat |-> P1.lat, lng |-> -MaxLng - 1],
   [name |-> "", category |-> "pole", layer |-> NoLayer, lat |-> P1.lat, lng |-> P1.lng]}

\* POST /api/artifacts: the body is parsed, a parsed body is handed to
\* storage.createArtifact and answered 201, anything else is answered 400
PostArtifact(body) ==
  /\ Idle
  /\ IF insertArtifactSchemaAccepts(body)
       THEN /\ nextId + Outstanding < MaxCreated
            /\ LET artifact == NewArtifact(body, NewId) IN
                 /\ artifacts' = Append(artifacts, artifact)
                 /\ spatialIndex' = IndexArtifact(spatialIndex, artifact)
                 /\ layers' = CountOnLayer(layers, artifact)
                 /\ created' = created \cup {artifact}
                 /\ resp' = [op |-> "POST /api/artifacts", body |-> body,
                             status |-> 201, result |-> artifact]
            /\ nextId' = NewId
       ELSE /\ resp' = [op |-> "POST /api/artifacts", body |-> body, status |-> 400]
            /\ UNCHANGED <<artifacts, spatialIndex, layers, nextId, created>>
  /\ UNCHANGED <<batch, factory>>

\* const MAX_LIMIT, const DEFAULT_LIMIT
MAX_LIMIT == 10000
DEFAULT_LIMIT == 5000

\* a query parameter that is not given, or given empty: both are falsy
Absent == ""
\* the number NaN
NaN == [nan |-> TRUE]

\* parseFloat of the texts used for north, south, east and west, in
\* coordinate units
parseFloatDegrees(text) ==
  CASE text = "42" -> Num(42 * UnitsPerDegree)
    [] text = "41" -> Num(41 * UnitsPerDegree)
    [] text = "-72" -> Num(-72 * UnitsPerDegree)
    [] text = "-73" -> Num(-73 * UnitsPerDegree)
    [] OTHER -> NaN

\* parseFloat of the texts used for zoom, in half levels
parseFloatLevels(text) ==
  CASE text = "10" -> Num(Level(10))
    [] text = "12.5" -> Num(Level(12) + 1)
    [] text = "-1" -> Num(Level(-1))
    [] text = "23" -> Num(Level(23))
    [] OTHER -> NaN

\* parseInt(text, 10) of the texts used for limit: leading digits are read
\* and what follows them is ignored
parseInt(text) ==
  CASE text = "0" -> Num(0)
    [] text = "3" -> Num(3)
    [] text = "12abc" -> Num(12)
    [] text = "50000" -> Num(50000)
    [] OTHER -> NaN

isNaN(value) == value = NaN

\* boundsSchema.parse succeeds: four numbers in range with north >= south
boundsSchemaAccepts(b) ==
  /\ \A side \in {"north", "south", "east", "west"} : ~isNaN(b[side])
  /\ \A side \in {"north", "south"} :
       b[side].number >= -MaxLat /\ b[side].number <= MaxLat
  /\ \A side \in {"east", "west"} :
       b[side].number >= -MaxLng /\ b[side].number <= MaxLng
  /\ b.north.number >= b.south.number

\* a route that passes the parsed limit on as it is
ClampLimitUnclamped(parsedLimit) == parsedLimit

\* Math.min(parsedLimit, MAX_LIMIT)
ClampLimit(parsedLimit) == IF parsedLimit < MAX_LIMIT THEN parsedLimit ELSE MAX_LIMIT

\* the answer to a request: its status, its body, and the calls of
\* storage.getViewportData made for it
Answer(status, body, storageCalls) ==
  [status |-> status, body |-> body, storageCalls |-> storageCalls]

\* GET /api/artifacts/viewport, lines 25-63
viewportRoute(query, index) ==
  IF \/ query.north = Absent \/ query.south = Absent \/ query.east = Absent
     \/ query.west = Absent \/ query.zoom = Absent
    THEN Answer(400, "Missing required parameters: north, south, east, west, zoom", <<>>)
  ELSE
    LET parsed == [north |-> parseFloatDegrees(query.north),
                   south |-> parseFloatDegrees(query.south),
                   east |-> parseFloatDegrees(query.east),
                   west |-> parseFloatDegrees(query.west)]
        zoomLevel == parseFloatLevels(query.zoom)
        parsedLimit == parseInt(query.limit)
    IN  IF ~boundsSchemaAccepts(parsed)
          THEN Answer(500, "Failed to fetch viewport data", <<>>)
        ELSE IF \/ isNaN(zoomLevel)
                \/ zoomLevel.number < Level(0) \/ zoomLevel.number > Level(22)
          THEN Answer(400, "Invalid zoom level", <<>>)
        ELSE IF query.limit # Absent /\ (isNaN(parsedLimit) \/ parsedLimit.number < 1)
          THEN Answer(400, "Invalid limit parameter", <<>>)
        ELSE
          LET bounds == [north |-> parsed.north.number, south |-> parsed.south.number,
                         east |-> parsed.east.number, west |-> parsed.west.number]
              maxResults == IF query.limit # Absent
                              THEN ClampLimit(parsedLimit.number)
                              ELSE DEFAULT_LIMIT
          IN  Answer(200,
                     getViewportData(index, bounds, zoomLevel.number, maxResults, NoFilter),
                     <<[bounds |-> bounds, zoom |-> zoomLevel.number, limit |-> maxResults]>>)

\* the query strings of the requests: bounds that parse, bounds with north
\* below south, and bounds without north; six zoom texts; six limit texts
BoundsTexts ==
  {[north |-> "42", south |-> "41", east |-> "-72", west |-> "-73"],
   [north |-> "41", south |-> "42", east |-> "-72", west |-> "-73"],
   [north |-> Absent, south |-> "41", east |-> "-72", west |-> "-73"]}
ZoomTexts == {Absent, "10", "12.5", "-1", "23", "abc"}
LimitTexts == {Absent, "abc", "0", "3", "12abc", "50000"}
Queries ==
  {[north |-> b.north, south |-> b.south, east |-> b.east, west |-> b.west,
    zoom |-> zoom, limit |-> limit] :
     b \in BoundsTexts, zoom \in ZoomTexts, limit \in LimitTexts}

GetViewport(query) ==
  /\ Idle
  /\ resp' = [op |-> "GET /api/artifacts/viewport", query |-> query,
              answer |-> viewportRoute(query, spatialIndex)]
  /\ UNCHANGED <<artifacts, spatialIndex, layers, nextId, created, batch, factory>>

(* ---------------------------- specification --------------------------- *)

\* ids looked up by getArtifact: the first created, the first seeded
ArtifactIds == {1, -1}
NewLayers == {[id |-> "x", name |-> "Layer x", visible |-> TRUE]}
\* the inputs of createManyArtifacts: none, or two artifacts of layer "x"
Batches ==
  {<<>>,
   <<[name |-> "pole-1", category |-> "pole", layer |-> "x", lat |-> P1.lat, lng |-> P1.lng],
     [name |-> "pole-1", category |-> "pole", layer |-> "x", lat |-> P4.lat, lng |-> P4.lng]>>}
\* requests of the read operations

Next ==
  \/ \E insertArtifact \in InsertArtifacts : createArtifact(insertArtifact)
  \/ \E inputs \in Batches : createManyArtifacts(inputs)
  \/ resumeCreateManyArtifacts
  \/ \E layer \in NewLayers : createLayer(layer)
  \/ \E visible \in BOOLEAN : updateLayerVisibility("x", visible)
  \/ \E id \in LayerIds : deleteLayer(id)
  \/ \E layerFilter \in LayerFilters : GetAllArtifacts(layerFilter)
  \/ \E layerFilter \in LayerFilters : GetArtifactCount(layerFilter)
  \/ \E circle \in Circles, layerFilter \in LayerFilters : GetAggregation(circle, layerFilter)
  \/ GetLayers
  \/ \E id \in ArtifactIds : GetArtifact(id)
  \/ \E id \in LayerIds : GetLayer(id)
  \/ \E bounds \in BoundsSet, layerFilter \in LayerFilters :
       GetArtifactsInBounds(bounds, layerFilter)
  \/ \E circle \in Circles, layerFilter \in LayerFilters :
       GetArtifactsInCircle(circle, layerFilter)
  \/ \E bounds \in BoundsSet, zoom \in Zooms, limit \in Limits :
       GetViewportData(bounds, zoom, limit, NoFilter)
  \/ \E zoom \in FilteredZooms, limit \in Limits :
       GetViewportData(WorldBounds, zoom, limit, {"x"})
  \/ \E zoom \in Zooms, limit \in Limits :
       PostgresGetViewportData(RowBounds, zoom, limit, NoFilter)
  \/ \E body \in PostBodies : PostArtifact(body)
  \/ Return

Spec == Init /\ [][Next]_vars

(* --------------------- storage factory (server/storage.ts) ------------ *)

\* what checkConnection and checkPostGIS can do when awaited
Outcomes == {"true", "false", "throws"}

\* what createStorage meets: whether process.env.DATABASE_URL is set, and the
\* outcomes of the two checks
Environments ==
  [DATABASE_URL : BOOLEAN, checkConnection : Outcomes, checkPostGIS : Outcomes]

\* createStorage, lines 47-62: the body of the try block, which returns a
\* PostgresStorage or throws
TryPostgres(env) ==
  IF env.checkConnection = "throws" THEN [thrown |-> "checkConnection"]
  ELSE IF env.checkConnection = "false"
    THEN [thrown |-> "Failed to connect to PostgreSQL database"]
  ELSE IF env.checkPostGIS = "throws" THEN [thrown |-> "checkPostGIS"]
  ELSE IF env.checkPostGIS = "false" THEN [thrown |-> "PostGIS extension not available"]
  ELSE [returned |-> "PostgresStorage"]

\* a catch block that throws the error on
CatchRethrows(attempt) ==
  IF "thrown" \in DOMAIN attempt THEN "rejected" ELSE attempt.returned

\* createStorage, lines 63-72: the catch block logs and falls through to the
\* in-memory storage
Catch(attempt) ==
  IF "thrown" \in DOMAIN attempt THEN "MemStorage" ELSE attempt.returned

\* createStorage, lines 42-73: the kind of storage it resolves with
createStorage(env) ==
  IF env.DATABASE_URL THEN Catch(TryPostgres(env)) ELSE "MemStorage"

\* createStorage calls that have not resolved yet
Creating == {c \in Callers : calls[c].pc = "createStorage"}

\* getStorage, lines 78-83, up to its await: with no instance yet it calls
\* createStorage and suspends; otherwise it returns the instance
getStorage(c) ==
  /\ calls[c] = NotCalled
  /\ storageInstance = Null => instances + Cardinality(Creating) < MaxInstances
  /\ IF storageInstance = Null
       THEN /\ calls' = [calls EXCEPT ![c] = [pc |-> "createStorage", stale |-> FALSE]]
            /\ createStorageRuns' = createStorageRuns + 1
            /\ UNCHANGED <<storageInstance, instances, lastCreate>>
       ELSE /\ calls' = [calls EXCEPT ![c] = [pc |-> "returned", stale |-> FALSE,
                                              result |-> storageInstance]]
            /\ UNCHANGED <<storageInstance, createStorageRuns, instances, lastCreate>>
  /\ UNCHANGED store

\* createStorage, lines 42-73, has constructed a storage and resolved:
\* getStorage assigns it to storageInstance and returns storageInstance
createStorageResolved(c, env) ==
  /\ calls[c].pc = "createStorage"
  /\ lastCreate' = [env |-> env, result |-> createStorage(env)]
  /\ instances' = instances + 1
  /\ storageInstance' = instances'
  /\ calls' = [calls EXCEPT ![c] = [pc |-> "returned", stale |-> calls[c].stale,
                                    result |-> storageInstance']]
  /\ UNCHANGED <<createStorageRuns, store>>

\* resetStorage, lines 88-90; the results handed out before it are forgotten
\* and the calls still suspended are marked as issued before it
resetStorage ==
  /\ storageInstance' = Null
  /\ createStorageRuns' = 0
  /\ calls' = [c \in Callers |->
                 IF calls[c].pc = "createStorage"
                   THEN [pc |-> "createStorage", stale |-> TRUE]
                   ELSE NotCalled]
  /\ UNCHANGED <<instances, lastCreate, store>>

NextStorage ==
  \/ \E c \in Callers : getStorage(c)
  \/ \E c \in Callers, env \in Environments : createStorageResolved(c, env)
  \/ resetStorage

SpecStorage == Init /\ [][NextStorage]_vars

(* ----------------------- clusters around the origin -------------------- *)

\* positions in the grid cell 0:0 of the 2, 1, 0.5 and 0.1 degree grids: the
\* origin itself and the point 0.05 degrees north-east of it
Origin == [lat |-> 0, lng |-> 0]
NearOrigin == [lat |-> 1, lng |-> 1]

\* a store without seed data after createArtifact of enough artifacts to fill
\* a cluster, each at one of the two positions
Placements ==
  UNION {[1..n -> {Origin, NearOrigin}] : n \in (ClusterThreshold + 1)..MaxPlaced}

PlacedArtifacts(placement) ==
  [i \in 1..Len(placement) |->
     NewArtifact([name |-> "pole-1", category |-> "pole", layer |-> NoLayer,
                  lat |-> placement[i].lat, lng |-> placement[i].lng], i)]

InitViewport ==
  \E placement \in Placements :
    /\ artifacts = PlacedArtifacts(placement)
    /\ spatialIndex = buildSpatialIndex(<<>>, PlacedArtifacts(placement))
    /\ layers = initializeLayers
    /\ nextId = Len(placement)
    /\ created = Range(PlacedArtifacts(placement))
    /\ batch = NoBatch
    /\ resp = NoCall
    /\ FactoryInit

NextViewport ==
  \/ \E zoom \in Zooms, limit \in Limits :
       GetViewportData(WorldBounds, zoom, limit, NoFilter)
  \/ \E zoom \in Zooms, limit \in Limits :
       PostgresGetViewportData(WorldBounds, zoom, limit, NoFilter)
  \/ \E query \in Queries : GetViewport(query)
  \/ Return

SpecViewport == InitViewport /\ [][NextViewport]_vars


(* ------------------------------ properties ---------------------------- *)

\* the point of artifact a lies in the closed rectangle b
InBounds(a, b) ==
  /\ b.south <= a.lat /\ a.lat <= b.north
  /\ b.west <= a.lng /\ a.lng <= b.east

Passes(a, layerFilter) == layerFilter = {} \/ LayerOf(a) \in layerFilter

Stored == Range(artifacts)

DistanceTo(circle, a) ==
  haversineDistance(circle.center.lat, circle.center.lng, a.lat, a.lng)

\* C1: getArtifactsInBounds without a layer filter, for bounds with north >=
\* south and east >= west, returns exactly the stored artifacts whose point
\* lies in the closed rectangle, each once; artifacts on an edge are included.
C1_BoundsExact ==
  (/\ resp.op = "getArtifactsInBounds"
   /\ resp.layers = {}
   /\ resp.bounds.north >= resp.bounds.south
   /\ resp.bounds.east >= resp.bounds.west)
  => /\ Range(resp.result) = {a \in Stored : InBounds(a, resp.bounds)}
     /\ Len(resp.result) = Cardinality({a \in Stored : InBounds(a, resp.bounds)})

\* a bounds query answered with artifacts on its north, south and west edges
\* while another stored artifact lies outside
C1_Witness ==
  /\ resp.op = "getArtifactsInBounds"
  /\ resp.layers = {}
  /\ \E a \in Range(resp.result) : a.lat = resp.bounds.north
  /\ \E a \in Range(resp.result) : a.lat = resp.bounds.south /\ a.lng = resp.bounds.west
  /\ \E a \in Stored : ~InBounds(a, resp.bounds)

\* an artifact on the east edge of the queried bounds is returned
C1_WitnessEast ==
  /\ resp.op = "getArtifactsInBounds"
  /\ \E a \in Range(resp.result) : a.lng = resp.bounds.east

\* C2: every artifact getArtifactsInCircle returns is within radius of the
\* centre, an artifact at distance exactly radius is returned, and one at a
\* greater distance is not.
C2_CircleInclusive ==
  resp.op = "getArtifactsInCircle" =>
    /\ \A a \in Range(resp.result) : DistanceTo(resp.circle, a) <= resp.circle.radius
    /\ \A a \in Stored :
         (DistanceTo(resp.circle, a) = resp.circle.radius /\ Passes(a, resp.layers))
           => a \in Range(resp.result)
    /\ \A a \in Stored :
         DistanceTo(resp.circle, a) > resp.circle.radius => a \notin Range(resp.result)

\* C3: getArtifactsInCircle returns every stored artifact (passing the layer
\* filter) whose distance to the centre is at most radius.
C3_CircleComplete ==
  resp.op = "getArtifactsInCircle" =>
    \A a \in Stored :
      (DistanceTo(resp.circle, a) <= resp.circle.radius /\ Passes(a, resp.layers))
        => a \in Range(resp.result)

\* C4: an artifact returned by createArtifact, while its layer has not been
\* deleted, is returned unchanged by getArtifact(id) and is among the result
\* of getArtifactsInBounds for every bounds containing its point, whatever
\* other creates and other calls happened since.
C4_RoundTrip ==
  /\ \A a \in created :
       /\ getArtifact(artifacts, a.id) = a
       /\ \A b \in BoundsSet :
            InBounds(a, b) => a \in Range(getArtifactsInBounds(spatialIndex, b, NoFilter))
  /\ resp.op = "createArtifact" =>
       /\ resp.result \in created
       /\ resp.result.name = resp.insert.name
       /\ resp.result.category = resp.insert.category
       /\ resp.result.lat = resp.insert.lat
       /\ resp.result.lng = resp.insert.lng
  /\ resp.op = "getArtifact" =>
       \A a \in created : a.id = resp.id => resp.result = a
  /\ (resp.op = "getArtifactsInBounds" /\ resp.layers = {}) =>
       \A a \in created : InBounds(a, resp.bounds) => a \in Range(resp.result)

\* the first created artifact is looked up after a second create and after
\* the deletion of another layer (the seeded one)
C4_Witness ==
  /\ resp.op = "getArtifact"
  /\ resp.id = 1
  /\ resp.result \in created
  /\ nextId >= 2
  /\ SeedLayer \notin DOMAIN layers

\* C5: deleteLayer(x) leaves in the map exactly the artifacts of the other
\* layers, and afterwards getArtifactsInBounds (over the world and any other
\* bounds), getArtifactsInCircle and getViewportData answer from those alone,
\* and getLayer(x) is absent.
C5_DeleteLayerStep ==
  resp'.op = "deleteLayer" =>
    LET x == resp'.id
        kept == {a \in Stored : a.layer # x}
    IN  /\ Range(getAllArtifacts(artifacts', NoFilter)) = kept
        /\ Len(artifacts') = Cardinality(kept)
        /\ getLayer(layers', x) = Undefined
        /\ \A b \in BoundsSet :
             LET found == getArtifactsInBounds(spatialIndex', b, NoFilter)
             IN  /\ Range(found) = {a \in kept : InBounds(a, b)}
                 /\ Len(found) = Cardinality({a \in kept : InBounds(a, b)})
        /\ \A c \in Circles :
             Range(getArtifactsInCircle(spatialIndex', c, NoFilter)) \subseteq kept
        /\ \A b \in BoundsSet, zoom \in Zooms :
             LET view == getViewportData(spatialIndex', b, zoom, MaxLimit, NoFilter)
             IN  /\ Range(view.singles) \subseteq kept
                 /\ view.total = Cardinality({a \in kept : InBounds(a, b)})

\* C5, as a property of every step: each deleteLayer step leaves the store so
C5_DeleteLayer == [][C5_DeleteLayerStep]_vars

\* deleteLayer("x") has just removed a created artifact of layer x from a
\* store that still holds the seeded layer and an artifact of layer "default"
C5_Witness ==
  /\ resp.op = "deleteLayer"
  /\ resp.id = "x"
  /\ SeedLayer \in DOMAIN layers
  /\ \E a \in Stored : a.layer = SeedLayer
  /\ \E a \in Stored : a.layer = DefaultLayer
  /\ Len(artifacts) < 8 + nextId

\* the artifacts a viewport request r is about, as a set and as the list the
\* bounds query yields
InView(r) == {a \in Stored : InBounds(a, r.bounds) /\ Passes(a, r.layers)}
ViewArtifacts(r) == getArtifactsInBounds(spatialIndex, r.bounds, r.layers)

\* the clusters and singles of request r before the limit is applied
PreClusters(r) ==
  IF r.zoom >= Level(13) THEN <<>>
  ELSE GridClusters(ViewArtifacts(r), getClusterGridSize(r.zoom))
PreSingles(r) ==
  IF r.zoom >= Level(13) THEN ViewArtifacts(r)
  ELSE GridSingles(ViewArtifacts(r), getClusterGridSize(r.zoom))

CellsOf(r) == {CellKey(a, getClusterGridSize(r.zoom)) : a \in InView(r)}
MembersOf(r, k) == {a \in InView(r) : CellKey(a, getClusterGridSize(r.zoom)) = k}
ClustersOfCell(r, k) ==
  {i \in 1..Len(r.result.clusters) : r.result.clusters[i].id = <<"cluster", k[1], k[2]>>}

\* C6: in an untruncated response for zoom < 13, every grid cell with 1, 2 or
\* 3 in-bounds artifacts has all of them in singles and no cluster, and every
\* cell with n >= 4 has exactly one ClusterData, of count n, and none of its
\* members in singles.
C6_ClusterThreshold ==
  (resp.op = "getViewportData" /\ resp.zoom < Level(13) /\ ~resp.result.truncated) =>
    \A k \in CellsOf(resp) :
      LET members == MembersOf(resp, k)
          n == Cardinality(members)
      IN  IF n <= 3
            THEN /\ members \subseteq Range(resp.result.singles)
                 /\ ClustersOfCell(resp, k) = {}
            ELSE /\ Cardinality(ClustersOfCell(resp, k)) = 1
                 /\ \A i \in ClustersOfCell(resp, k) : resp.result.clusters[i].count = n
                 /\ members \cap Range(resp.result.singles) = {}

\* an untruncated clustered response over a cell of exactly three artifacts
\* (all singles) and a cell of exactly four (one cluster of count 4)
C6_Witness ==
  /\ resp.op = "getViewportData"
  /\ resp.zoom < Level(13)
  /\ ~resp.result.truncated
  /\ \E k \in CellsOf(resp) :
       Cardinality(MembersOf(resp, k)) = 3 /\ MembersOf(resp, k) \subseteq Range(resp.result.singles)
  /\ \E k \in CellsOf(resp) : Cardinality(MembersOf(resp, k)) = 4
  /\ \E i \in 1..Len(resp.result.clusters) : resp.result.clusters[i].count = 4

\* C7: when clusters plus singles exceed the limit, the response holds all
\* clusters and the first (limit - number of clusters) singles if the
\* clusters fit, and otherwise the first limit clusters and no singles;
\* truncated is true in both cases.
C7_TruncationPriority ==
  (/\ resp.op = "getViewportData"
   /\ Len(PreClusters(resp)) + Len(PreSingles(resp)) > resp.limit) =>
    LET c == PreClusters(resp)
        s == PreSingles(resp)
    IN  /\ resp.result.truncated
        /\ IF Len(c) <= resp.limit
             THEN /\ resp.result.clusters = c
                  /\ resp.result.singles = SubSeq(s, 1, resp.limit - Len(c))
             ELSE /\ resp.result.clusters = SubSeq(c, 1, resp.limit)
                  /\ resp.result.singles = <<>>

\* a truncated response that keeps its cluster and a proper, non-empty prefix
\* of the singles
C7_Witness ==
  /\ resp.op = "getViewportData"
  /\ resp.result.truncated
  /\ Len(resp.result.clusters) >= 1
  /\ Len(resp.result.singles) >= 1
  /\ Len(resp.result.singles) < Len(PreSingles(resp))

\* a truncated response whose clusters alone exceeded the limit
C7_WitnessClustersOnly ==
  /\ resp.op = "getViewportData"
  /\ resp.result.truncated
  /\ Len(PreClusters(resp)) > resp.limit
  /\ Len(resp.result.clusters) = resp.limit
  /\ resp.result.singles = <<>>

\* C8: truncated is true exactly when the clusters plus singles computed
\* before the limit outnumber the limit, and an untruncated response carries
\* all of them.
C8_TruncatedIff ==
  resp.op = "getViewportData" =>
    /\ resp.result.truncated <=>
         (Len(PreClusters(resp)) + Len(PreSingles(resp)) > resp.limit)
    /\ ~resp.result.truncated =>
         /\ resp.result.clusters = PreClusters(resp)
         /\ resp.result.singles = PreSingles(resp)

\* an untruncated clustered response that fills the limit exactly
C8_Witness ==
  /\ resp.op = "getViewportData"
  /\ ~resp.result.truncated
  /\ Len(resp.result.clusters) >= 1
  /\ Len(resp.result.singles) >= 1
  /\ Len(resp.result.clusters) + Len(resp.result.singles) = resp.limit

\* C9: for every limit >= 1 the response holds at most limit clusters and
\* singles together.
C9_WithinLimit ==
  (resp.op = "getViewportData" /\ resp.limit >= 1) =>
    Len(resp.result.clusters) + Len(resp.result.singles) <= resp.limit

\* a truncated response that mixes clusters and singles and fills the limit
C9_Witness ==
  /\ resp.op = "getViewportData"
  /\ resp.limit >= 1
  /\ resp.result.truncated
  /\ Len(resp.result.clusters) >= 1
  /\ Len(resp.result.singles) >= 1
  /\ Len(resp.result.clusters) + Len(resp.result.singles) = resp.limit

\* C10: for zoom >= 13 clusters is empty; if the n in-bounds artifacts exceed
\* the limit, singles is the first limit of them and truncated is true,
\* otherwise singles is all n and truncated is false.
C10_HighZoom ==
  (resp.op = "getViewportData" /\ resp.zoom >= Level(13)) =>
    LET arts == ViewArtifacts(resp)
    IN  /\ resp.result.clusters = <<>>
        /\ Range(arts) = InView(resp)
        /\ IF Len(arts) > resp.limit
             THEN /\ resp.result.singles = SubSeq(arts, 1, resp.limit)
                  /\ resp.result.truncated
             ELSE /\ resp.result.singles = arts
                  /\ ~resp.result.truncated

\* a zoom-13 response over a cell of four or more artifacts, cut to the limit
C10_Witness ==
  /\ resp.op = "getViewportData"
  /\ resp.zoom >= Level(13)
  /\ resp.result.truncated
  /\ Len(resp.result.singles) = resp.limit
  /\ \E k \in CellsOf(resp) : Cardinality(MembersOf(resp, k)) >= 4

\* a zoom-13 response that returns all in-bounds artifacts
C10_WitnessAll ==
  /\ resp.op = "getViewportData"
  /\ resp.zoom >= Level(13)
  /\ ~resp.result.truncated
  /\ Len(resp.result.singles) >= 1

\* the responses of getViewportData, of either backend
IsViewport(r) == r.op \in {"getViewportData", "PostgresStorage.getViewportData"}

\* C11: the total of a getViewportData response, of the in-memory and of the
\* persisted backend, equals the number of stored artifacts inside bounds that
\* pass the layer filter, for every zoom and every limit.
C11_Total ==
  IsViewport(resp) => resp.result.total = Cardinality(InView(resp))

\* the in-memory backend alone meets C11 ...
C11_MemTotal ==
  resp.op = "getViewportData" => resp.result.total = Cardinality(InView(resp))

\* ... in a truncated response too
C11_MemWitness ==
  /\ resp.op = "getViewportData"
  /\ resp.result.truncated
  /\ resp.result.total > resp.limit + 1

\* the (id, count) pairs of the clusters of a response
ClusterPairs(result) ==
  {<<result.clusters[i].id, result.clusters[i].count>> : i \in 1..Len(result.clusters)}

\* two responses a client cannot tell apart in the sense of C12
SameViewport(a, b) ==
  /\ a.total = b.total
  /\ a.truncated = b.truncated
  /\ ~a.truncated =>
       /\ ClusterPairs(a) = ClusterPairs(b)
       /\ Range(a.singles) = Range(b.singles)

\* C12: for the same stored artifacts and the same (bounds, zoom, limit, layer
\* filter), the in-memory and the persisted getViewportData return the same
\* total and truncated flag and, when not truncated, the same set of cluster
\* (id, count) pairs and the same set of singles.
C12_BackendEquivalence ==
  resp.op = "PostgresStorage.getViewportData" => SameViewport(resp.mem, resp.result)

\* below zoom 13 the two backends do agree
C12_ClusteredEquivalence ==
  (resp.op = "PostgresStorage.getViewportData" /\ resp.zoom < Level(HighZoom))
    => SameViewport(resp.mem, resp.result)

C12_ClusteredWitness ==
  /\ resp.op = "PostgresStorage.getViewportData"
  /\ resp.zoom < Level(HighZoom)
  /\ ~resp.result.truncated
  /\ resp.result.clusters # <<>>
  /\ resp.result.singles # <<>>

\* a createManyArtifacts call has made its first create and not yet its last
BetweenCreates == batch # NoBatch /\ Outstanding > 0

\* C13: writes are serialized: between the first and the last create of one
\* createManyArtifacts batch no other write (createArtifact, deleteLayer)
\* takes effect on the artifact map or the spatial index.
C13_SerializedStep ==
  (BetweenCreates /\ <<artifacts, spatialIndex>>' # <<artifacts, spatialIndex>>)
    => batch' # batch
C13_Serialized == [][C13_SerializedStep]_vars

\* the consequence C13 draws: of a returned batch whose artifacts are all in
\* one layer, either every artifact is stored or none is
C13_BatchWhole ==
  (resp.op = "createManyArtifacts"
     /\ \E l \in LayerIds : \A i \in 1..Len(resp.result) : resp.result[i].layer = l)
    => \/ Range(resp.result) \subseteq Stored
       \/ Range(resp.result) \cap Stored = {}

\* the multiset of the elements of a list
BagOf(s) == [x \in Range(s) |-> Cardinality({i \in 1..Len(s) : s[i] = x})]

ReadOps ==
  {"getArtifact", "getAllArtifacts", "getArtifactsInBounds", "getArtifactsInCircle",
   "getAggregation", "getViewportData", "getArtifactCount", "getLayers", "getLayer"}

\* C14: a read operation (getArtifact, getAllArtifacts, getArtifactsInBounds,
\* getArtifactsInCircle, getAggregation, getViewportData, getArtifactCount,
\* getLayers, getLayer) leaves the artifact map, the spatial index and the layer
\* registry unchanged, and a getAllArtifacts call that follows another one with
\* no write in between returns the same multiset of artifacts.
C14_ReadStep ==
  (resp' # resp /\ resp'.op \in ReadOps) =>
    /\ UNCHANGED <<artifacts, spatialIndex, layers>>
    /\ (resp'.op = "getAllArtifacts" /\ resp'.repeated)
         => BagOf(resp'.result) = BagOf(resp'.previous)
CategoriesOf(arts) == {arts[i].category : i \in 1..Len(arts)}

\* C15: getAggregation(circle, layers) returns artifacts equal to
\* getArtifactsInCircle(circle, layers), count equal to their number, and
\* categories whose keys are exactly the categories occurring in artifacts, each
\* mapped to its number of occurrences: no zero entry, the values sum to count,
\* and an empty circle yields count 0 and no category.
C15_Aggregation ==
  resp.op = "getAggregation" =>
    LET r == resp.result IN
      /\ r.artifacts = getArtifactsInCircle(spatialIndex, resp.circle, resp.layers)
      /\ r.count = Len(r.artifacts)
      /\ DOMAIN r.categories = CategoriesOf(r.artifacts)
      /\ \A c \in DOMAIN r.categories :
           /\ r.categories[c] =
                Num(Cardinality({i \in 1..Len(r.artifacts) : r.artifacts[i].category = c}))
           /\ r.categories[c] # Num(0)
      /\ r.artifacts = <<>> => (r.count = 0 /\ DOMAIN r.categories = {})

\* C15 holds of every aggregation over categories that are no member of
\* Object.prototype
C15_PlainCategories ==
  (resp.op = "getAggregation"
     /\ \A c \in CategoriesOf(resp.result.artifacts) : ObjectPrototype(c) = Undefined)
    => C15_Aggregation

\* such an aggregation over two categories, one of them occurring several times
C15_PlainWitness ==
  /\ resp.op = "getAggregation"
  /\ \A c \in CategoriesOf(resp.result.artifacts) : ObjectPrototype(c) = Undefined
  /\ Cardinality(DOMAIN resp.result.categories) = 2
  /\ \E c \in DOMAIN resp.result.categories : resp.result.categories[c].number >= 2

\* C16: createArtifact increments the artifactCount of the artifact's layer by
\* exactly 1 and creates the layer record when the layer id, the defaulted
\* "default" included, has none yet: after a createArtifact that returned
\* artifact a, getLayer(a.layer) is defined.
C16_LayerRegisteredStep ==
  (resp = NoCall /\ resp'.op = "createArtifact") =>
    LET a == resp'.result IN
      /\ getLayer(layers', a.layer) # Undefined
      /\ getLayer(layers', a.layer).artifactCount =
           (IF a.layer \in DOMAIN layers THEN layers[a.layer].artifactCount ELSE 0) + 1
C16_LayerRegistered == [][C16_LayerRegisteredStep]_vars

\* on a layer that has a record, createArtifact does count the artifact
C16_RegisteredLayerStep ==
  (resp = NoCall /\ resp'.op = "createArtifact" /\ resp'.result.layer \in DOMAIN layers) =>
    /\ DOMAIN layers' = DOMAIN layers
    /\ layers'[resp'.result.layer].artifactCount = layers[resp'.result.layer].artifactCount + 1
    /\ \A l \in DOMAIN layers \ {resp'.result.layer} : layers'[l] = layers[l]
C16_RegisteredLayer == [][C16_RegisteredLayerStep]_vars

C16_RegisteredWitness ==
  /\ resp.op = "createArtifact"
  /\ resp.result.layer \in DOMAIN layers
  /\ layers[resp.result.layer].artifactCount = 1

\* the stored artifacts a layer list selects: all for an absent or empty list
Selected(layerFilter) == {a \in Stored : Passes(a, layerFilter)}

\* C17: for getAllArtifacts, getArtifactsInBounds, getArtifactsInCircle,
\* getViewportData and getArtifactCount an absent or empty layer list selects
\* the artifacts of all layers and a non-empty list exactly the artifacts whose
\* layer is in the list; getArtifactCount(f) equals the length of
\* getAllArtifacts(f).
C17_LayerFilter ==
  /\ resp.op = "getAllArtifacts" =>
       /\ Range(resp.result) = Selected(resp.layers)
       /\ Len(resp.result) = Cardinality(Selected(resp.layers))
       /\ getArtifactCount(artifacts, resp.layers) = Len(resp.result)
  /\ resp.op = "getArtifactCount" =>
       /\ resp.result = Cardinality(Selected(resp.layers))
       /\ resp.result = Len(getAllArtifacts(artifacts, resp.layers))
  /\ resp.op = "getArtifactsInBounds" =>
       Range(resp.result) = {a \in Selected(resp.layers) : InBounds(a, resp.bounds)}
  /\ resp.op = "getArtifactsInCircle" =>
       Range(resp.result) =
         Range(getArtifactsInCircle(spatialIndex, resp.circle, NoFilter))
           \cap Selected(resp.layers)
  /\ resp.op = "getViewportData" =>
       /\ resp.result.total = Cardinality(InView(resp))
       /\ ~resp.result.truncated =>
            Cardinality(Range(resp.result.singles))
              + SeqSum(MapSeq(resp.result.clusters, LAMBDA c : c.count))
              = Cardinality(InView(resp))
       /\ Range(resp.result.singles) \subseteq Selected(resp.layers)

\* a count under a filter that selects some stored artifacts and leaves out others
C17_Witness ==
  /\ resp.op = "getArtifactCount"
  /\ resp.layers # {}
  /\ resp.result > 0
  /\ resp.result < Len(artifacts)

\* a viewport under such a filter
C17_WitnessViewport ==
  /\ resp.op = "getViewportData"
  /\ resp.layers # {}
  /\ resp.result.total > 0
  /\ resp.result.total < Len(artifacts)

\* C18: createManyArtifacts(inputs) returns one artifact per input in input
\* order, output[i] built from inputs[i], with pairwise distinct ids; its creates
\* raise getArtifactCount by exactly the number of inputs; for the empty input
\* it returns the empty list and leaves the store unchanged.
C18_CreateManyStep ==
  (resp = NoCall /\ resp'.op = "createManyArtifacts") =>
    LET inputs == resp'.inputs
        output == resp'.result
    IN  /\ Len(output) = Len(inputs)
        /\ \A i \in 1..Len(inputs) : output[i] = NewArtifact(inputs[i], output[i].id)
        /\ \A i, j \in 1..Len(output) : i # j => output[i].id # output[j].id
        /\ resp'.raised = Len(inputs)
        /\ inputs = <<>> =>
             (output = <<>> /\ UNCHANGED <<artifacts, spatialIndex, layers>>)
C18_WitnessEmpty ==
  /\ resp.op = "createManyArtifacts"
  /\ resp.inputs = <<>>
  /\ artifacts # <<>>

\* C19: getArtifact(id) and getLayer(id) for an id that is not stored, because
\* it was never created or because deleteLayer removed it, return the absent
\* result instead of raising an error, and leave the store unchanged.
C19_NotFoundStep ==
  /\ (resp = NoCall /\ resp'.op = "getArtifact"
        /\ \A a \in Stored : a.id # resp'.id) =>
       /\ resp'.result = Undefined
       /\ UNCHANGED <<artifacts, spatialIndex, layers>>
  /\ (resp = NoCall /\ resp'.op = "getLayer" /\ resp'.id \notin DOMAIN layers) =>
       /\ resp'.result = Undefined
       /\ UNCHANGED <<artifacts, spatialIndex, layers>>
C19_NotFound == [][C19_NotFoundStep]_vars

\* a lookup of an artifact that was created and then removed by deleteLayer
C19_Witness ==
  /\ resp.op = "getArtifact"
  /\ resp.id = 1
  /\ nextId >= 1
  /\ resp.result = Undefined

\* a lookup of an artifact id that was never created
C19_WitnessNever ==
  /\ resp.op = "getArtifact"
  /\ resp.id = 1
  /\ nextId = 0
  /\ resp.result = Undefined

\* a lookup of a layer that was deleted, and of one that was never created
C19_WitnessLayer ==
  /\ resp.op = "getLayer"
  /\ resp.id = SeedLayer
  /\ resp.result = Undefined
C19_WitnessLayerNever ==
  /\ resp.op = "getLayer"
  /\ resp.id = "x"
  /\ nextId = 0
  /\ resp.result = Undefined

\* caller c holds the result of a getStorage call issued since the last resetStorage
Returned(c) == calls[c].pc = "returned" /\ ~calls[c].stale

\* C20: between two resetStorage calls every getStorage call returns the same
\* storage instance and createStorage runs at most once, also when several
\* getStorage calls are issued before the first one has resolved.
C20_Singleton ==
  /\ createStorageRuns <= 1
  /\ \A c, d \in Callers :
       (Returned(c) /\ Returned(d)) => calls[c].result = calls[d].result

\* C21: createStorage never fails: it returns a PostgresStorage only when
\* DATABASE_URL is set and both checkConnection and checkPostGIS succeed, and a
\* MemStorage when DATABASE_URL is unset or either check returns false or throws.
C21_Fallback ==
  lastCreate # NotCreated =>
    LET env == lastCreate.env
        healthy == /\ env.DATABASE_URL
                   /\ env.checkConnection = "true"
                   /\ env.checkPostGIS = "true"
    IN  /\ lastCreate.result \in {"PostgresStorage", "MemStorage"}
        /\ lastCreate.result = "PostgresStorage" <=> healthy

\* createStorage fell back because a check threw
C21_Witness ==
  /\ lastCreate # NotCreated
  /\ lastCreate.env.DATABASE_URL
  /\ lastCreate.env.checkConnection = "true"
  /\ lastCreate.env.checkPostGIS = "throws"
  /\ lastCreate.result = "MemStorage"

\* createStorage returned the persisted storage
C21_WitnessPostgres ==
  /\ lastCreate # NotCreated
  /\ lastCreate.result = "PostgresStorage"


(* --------------------------- POST /api/artifacts ----------------------- *)

InRange(artifact) ==
  /\ artifact.lat >= -MaxLat /\ artifact.lat <= MaxLat
  /\ artifact.lng >= -MaxLng /\ artifact.lng <= MaxLng

IsPost(r) == r # NoCall /\ r.op = "POST /api/artifacts"

BadBody(body) ==
  \/ body.lat < -MaxLat \/ body.lat > MaxLat
  \/ body.lng < -MaxLng \/ body.lng > MaxLng
  \/ body.name = ""

C22_ValidatedStep ==
  /\ (IsPost(resp') /\ BadBody(resp'.body)) =>
       /\ resp'.status = 400
       /\ UNCHANGED <<artifacts, spatialIndex>>
  /\ \A item \in Range(spatialIndex') : InRange(item.artifact)

\* C22: a POST /api/artifacts whose body has a latitude outside [-90, 90], a
\* longitude outside [-180, 180] or an empty name is answered 400 and leaves
\* the artifact map and the spatial index as they were, and every artifact in
\* the index has its latitude and longitude in range after every request
C22_Validated == [][C22_ValidatedStep]_vars

\* a body with an out-of-range longitude has been answered while artifacts
\* created through the API are in the index
C22_Witness ==
  /\ IsPost(resp)
  /\ resp.body.lng < -MaxLng
  /\ resp.status = 400
  /\ \E item \in Range(spatialIndex) : item.artifact.id > 0

C22_WitnessCreated ==
  /\ IsPost(resp)
  /\ resp.status = 201
  /\ \E item \in Range(spatialIndex) : item.artifact = resp.result


(* ------------------------- index and map agree ------------------------- *)

IndexedArtifacts == {item.artifact : item \in Range(spatialIndex)}

\* C23: in every state, between any two steps of createArtifact,
\* createManyArtifacts, createLayer, updateLayerVisibility and deleteLayer,
\* the artifacts held by the spatial index are exactly the values of the
\* artifact map, each of them once
C23_IndexIsMap ==
  /\ IndexedArtifacts = Range(artifacts)
  /\ Len(spatialIndex) = Len(artifacts)

\* a layer was deleted while a batch is suspended, and artifacts remain
C23_Witness ==
  /\ batch # NoBatch
  /\ resp # NoCall
  /\ resp.op = "deleteLayer"
  /\ artifacts # <<>>
  /\ \E a \in Range(artifacts) : a.id > 0


(* ----------------------------- layer counters -------------------------- *)

StoredOnLayer(id) == Cardinality({i \in 1..Len(artifacts) : artifacts[i].layer = id})

\* C24: after any sequence of createArtifact, createManyArtifacts, createLayer
\* (of new or registered ids), updateLayerVisibility and deleteLayer, the
\* artifactCount of every registered layer is the number of stored artifacts
\* of that layer
C24_LayerCounts ==
  \A id \in DOMAIN layers : layers[id].artifactCount = StoredOnLayer(id)

CountsAgree(lyrs, arts) ==
  \A id \in DOMAIN lyrs :
    lyrs[id].artifactCount = Cardinality({i \in 1..Len(arts) : arts[i].layer = id})

C24_ReRegisteredStep ==
  (/\ resp'.op = "createLayer"
   /\ resp'.layer.id \in DOMAIN layers
   /\ CountsAgree(layers, artifacts))
    => CountsAgree(layers', artifacts')

\* createLayer of an id that is registered, in a state where the counters
\* agree with the map, leaves them in agreement
C24_ReRegistered == [][C24_ReRegisteredStep]_vars


(* ------------------------------ grid sizes ----------------------------- *)

\* the rows of the grid-size table: 2, 1, 0.5 and 0.1 degrees
TableGridSizes ==
  {2 * UnitsPerDegree, UnitsPerDegree, UnitsPerDegree \div 2, UnitsPerDegree \div 10}

\* C25: for every zoom from 0 to 22, fractional ones included, that takes the
\* clustering path (zoom < 13), getViewportData uses a grid size of the table
\* (2, 1, 0.5 or 0.1 degrees), never the 0.05 fallback
C25_TableGridSize ==
  (/\ resp.op = "getViewportData"
   /\ resp.zoom >= Level(0) /\ resp.zoom <= Level(22)
   /\ ~IsHighZoom(resp.zoom))
    => getClusterGridSize(resp.zoom) \in TableGridSizes

\* on whole zoom levels the clustering path uses a grid size of the table
C25_WholeLevels ==
  (/\ resp.op = "getViewportData"
   /\ resp.zoom % UnitsPerLevel = 0
   /\ ~IsHighZoom(resp.zoom))
    => getClusterGridSize(resp.zoom) \in TableGridSizes


(* ------------------------------- createdAt ----------------------------- *)

HasCreatedAt(insertArtifact) == "createdAt" \in DOMAIN insertArtifact

\* C26: createArtifact sets createdAt to the current time only when the input
\* has none; the createdAt of an input is kept by the stored and by the
\* returned artifact
C26_CreatedAt ==
  resp.op = "createArtifact" =>
    /\ resp.result.createdAt =
         IF HasCreatedAt(resp.insert) THEN resp.insert.createdAt ELSE Now
    /\ \A a \in Range(artifacts) :
         a.id = resp.result.id => a.createdAt = resp.result.createdAt

\* an input without createdAt is stored and returned with the current time
C26_DefaultsToNow ==
  (resp.op = "createArtifact" /\ ~HasCreatedAt(resp.insert)) =>
    /\ resp.result.createdAt = Now
    /\ \A a \in Range(artifacts) : a.id = resp.result.id => a.createdAt = Now


(* ------------------------------ cluster ids ---------------------------- *)

\* the cell key floor(lng / gridSize):floor(lat / gridSize) of a cluster
ClusterKey(cluster) == <<cluster.id[2], cluster.id[3]>>

\* the clusters of the same request at another zoom
ClustersAt(r, zoom) ==
  Range((IF r.op = "getViewportData"
           THEN getViewportData(spatialIndex, r.bounds, zoom, r.limit, r.layers)
           ELSE PgGetViewportData(artifacts, r.bounds, zoom, r.limit, r.layers)).clusters)

C27_DistinctWithinResponse ==
  IsViewport(resp) =>
    \A i, j \in 1..Len(resp.result.clusters) :
      i # j => resp.result.clusters[i].id # resp.result.clusters[j].id

\* C27: the cluster ids of one response are pairwise distinct, and two
\* clusters with the same cell key produced at zooms with different grid
\* sizes carry different ids
C27_ClusterIds ==
  IsViewport(resp) =>
    /\ \A i, j \in 1..Len(resp.result.clusters) :
         i # j => resp.result.clusters[i].id # resp.result.clusters[j].id
    /\ \A zoom \in Zooms :
         (/\ ~IsHighZoom(resp.zoom) /\ ~IsHighZoom(zoom)
          /\ getClusterGridSize(zoom) # getClusterGridSize(resp.zoom))
           => \A c \in Range(resp.result.clusters), d \in ClustersAt(resp, zoom) :
                ClusterKey(c) = ClusterKey(d) => c.id # d.id


(* ------------------------------ conservation --------------------------- *)

\* how often artifact a occurs in the list
Occurrences(list, a) == Cardinality({i \in 1..Len(list) : list[i] = a})

\* the clusters of response r that stand for the grid cell of artifact a
ClustersOver(r, a) ==
  {i \in 1..Len(r.result.clusters) :
     ClusterKey(r.result.clusters[i]) = CellKey(a, getClusterGridSize(r.zoom))}

\* C28: in an untruncated response of the clustering path (zoom < 13) every
\* in-bounds artifact is represented exactly once, as one element of singles
\* or as a member of exactly one cluster; the cluster counts and the number
\* of singles add up to total; no grid cell gives both a cluster and singles
C28_Conservation ==
  (resp.op = "getViewportData" /\ ~IsHighZoom(resp.zoom) /\ ~resp.result.truncated) =>
    /\ \A a \in InView(resp) :
         Occurrences(resp.result.singles, a) + Cardinality(ClustersOver(resp, a)) = 1
    /\ Range(resp.result.singles) \subseteq InView(resp)
    /\ \A i \in 1..Len(resp.result.clusters) :
         resp.result.clusters[i].count =
           Cardinality(MembersOf(resp, ClusterKey(resp.result.clusters[i])))
    /\ SeqSum(MapSeq(resp.result.clusters, LAMBDA c : c.count))
         + Len(resp.result.singles) = resp.result.total
    /\ resp.result.total = Cardinality(InView(resp))
    /\ \A i \in 1..Len(resp.result.singles) :
         ClustersOver(resp, resp.result.singles[i]) = {}

\* an untruncated clustered response with a cluster and singles beside it
C28_Witness ==
  /\ resp.op = "getViewportData"
  /\ ~IsHighZoom(resp.zoom)
  /\ ~resp.result.truncated
  /\ resp.result.clusters # <<>>
  /\ resp.result.singles # <<>>
  /\ resp.result.total > Len(resp.result.clusters) + Len(resp.result.singles)


(* ---------------------- GET /api/artifacts/viewport -------------------- *)

IsGetViewport(r) == r.op = "GET /api/artifacts/viewport"

\* the zoom of the query is NaN, below 0 or above 22
BadZoom(query) ==
  LET zoomLevel == parseFloatLevels(query.zoom)
  IN  isNaN(zoomLevel) \/ zoomLevel.number < Level(0) \/ zoomLevel.number > Level(22)

\* the limit of the query is given and is not a number, or is below 1
BadLimit(query) ==
  /\ query.limit # Absent
  /\ isNaN(parseInt(query.limit)) \/ parseInt(query.limit).number < 1

\* north, south, east, west and zoom are all given
AllGiven(query) ==
  /\ query.north # Absent /\ query.south # Absent
  /\ query.east # Absent /\ query.west # Absent /\ query.zoom # Absent

\* the four bounds of the query are given and pass boundsSchema
GoodBounds(query) ==
  /\ query.north # Absent /\ query.south # Absent
  /\ query.east # Absent /\ query.west # Absent
  /\ boundsSchemaAccepts([side \in {"north", "south", "east", "west"} |->
                            parseFloatDegrees(query[side])])

\* storage.getViewportData is called at most once, with a limit in
\* 1..10000: 5000 for an absent limit, 10000 for a limit above 10000, the
\* parsed limit otherwise
LimitPassed(r) ==
  /\ Len(r.answer.storageCalls) <= 1
  /\ \A i \in 1..Len(r.answer.storageCalls) :
       LET passed == r.answer.storageCalls[i].limit
       IN  /\ passed >= 1 /\ passed <= MAX_LIMIT
           /\ passed = IF r.query.limit = Absent THEN DEFAULT_LIMIT
                       ELSE IF parseInt(r.query.limit).number > MAX_LIMIT THEN MAX_LIMIT
                       ELSE parseInt(r.query.limit).number

C29_WitnessZoom ==
  /\ IsGetViewport(resp)
  /\ GoodBounds(resp.query)
  /\ resp.query.zoom = "23"
  /\ resp.answer.status = 400

\* a request without limit has been passed to the storage with limit 5000
C29_WitnessDefault ==
  /\ IsGetViewport(resp)
  /\ resp.query.limit = Absent
  /\ resp.answer.storageCalls # <<>>
  /\ resp.answer.storageCalls[1].limit = DEFAULT_LIMIT


(* ------------------------- the frame of deleteLayer -------------------- *)

C30_FrameStep ==
  resp'.op = "deleteLayer" =>
    LET x == resp'.id IN
      /\ \A a \in Range(artifacts) :
           a.layer # x =>
             /\ getArtifact(artifacts', a.id) = a
             /\ Occurrences(getAllArtifacts(artifacts', NoFilter), a) = 1
             /\ \A b \in BoundsSet :
                  InBounds(a, b) =>
                    Occurrences(getArtifactsInBounds(spatialIndex', b, NoFilter), a) = 1
      /\ \A l \in DOMAIN layers \ {x} :
           /\ l \in DOMAIN layers'
           /\ layers'[l].artifactCount = layers[l].artifactCount
           /\ layers'[l].visible = layers[l].visible
      /\ ((\A a \in Range(artifacts) : a.layer # x) /\ x \notin DOMAIN layers) =>
           /\ artifacts' = artifacts
           /\ layers' = layers
           /\ BagOf(spatialIndex') = BagOf(spatialIndex)
           /\ \A b \in BoundsSet :
                BagOf(getArtifactsInBounds(spatialIndex', b, NoFilter))
                  = BagOf(getArtifactsInBounds(spatialIndex, b, NoFilter))

\* C30: deleteLayer(id) changes nothing outside the deleted layer: the
\* artifacts of other layers are still answered, with the same fields, by
\* getArtifact, getAllArtifacts and getArtifactsInBounds; the other layer
\* records keep artifactCount and visible; and for an id with neither
\* artifacts nor a record the map, the layers and the contents of the index
\* stay as they were
C30_Frame == [][C30_FrameStep]_vars

\* deleteLayer("x") has removed artifacts while the seeded layer and its
\* artifacts, and an artifact of layer "default", are still there
C30_Witness ==
  /\ resp.op = "deleteLayer"
  /\ resp.id = "x"
  /\ Len(artifacts) < 8 + nextId
  /\ SeedLayer \in DOMAIN layers
  /\ layers[SeedLayer].artifactCount > 0
  /\ \E a \in Range(artifacts) : a.layer = SeedLayer
  /\ \E a \in Range(artifacts) : a.layer = DefaultLayer

\* deleteLayer("x") on a store that never saw layer "x"
C30_WitnessAbsent ==
  /\ resp.op = "deleteLayer"
  /\ resp.id = "x"
  /\ nextId = 0
  /\ artifacts # <<>>
  /\ batch = NoBatch

====
